---------------------------- MODULE Spec2Model ----------------------------
(***************************************************************************)
(* Sales dashboard: the filtering / KPI / aggregation pipeline of app.py   *)
(* and the synthetic data generator of utils/data_generator.py.            *)
(*                                                                         *)
(* Conventions                                                             *)
(*  - A DataFrame or a list of dicts is a sequence of records.             *)
(*  - Money is an integer number of cents.                                 *)
(*  - A calendar date is the integer yyyymmdd, a calendar month yyyymm;    *)
(*    the order of dates is the order of these integers.                   *)
(*  - Python's string order is given by explicit alphabetical sequences.   *)
(*  - Every row has a value in every column (no missing values).           *)
(***************************************************************************)
EXTENDS Integers, Sequences, FiniteSets, TLC

VARIABLES
    \* ---- app.py: locals of main() ----
    df,               \* load_data()
    start_date,       \* filter arguments
    end_date,
    regions,
    categories,
    channels,
    filtered_df,      \* apply_filters(...)
    kpis,             \* the four metrics of render_kpis
    monthly,          \* monthly_sales_trend
    regional,         \* sales_by_region
    category_profit,  \* profit_by_category
    channel_sales,    \* sales_channel_distribution
    product_sales,    \* top_products_by_revenue
    top_n,            \* argument of top_products_by_revenue
    error,            \* exception raised by a step, "none" when there is none
    pc,               \* position in main()
    \* ---- utils/data_generator.py ----
    num_rows,         \* argument of generate_sales_data
    order_id,         \* loop variable of generate_sales_data
    data,             \* the list being built
    rng,              \* state of the process-wide random source
    gen_pc,           \* position in generate_sales_data
    result            \* value returned by generate_sales_data

appVars == <<df, start_date, end_date, regions, categories, channels, filtered_df,
             kpis, monthly, regional, category_profit, channel_sales,
             product_sales, top_n, error, pc>>
genVars == <<num_rows, order_id, data, rng, gen_pc, result>>
vars == <<df, start_date, end_date, regions, categories, channels, filtered_df,
          kpis, monthly, regional, category_profit, channel_sales,
          product_sales, top_n, error, pc,
          num_rows, order_id, data, rng, gen_pc, result>>

---------------------------------------------------------------------------
(* Bounds of the model *)

\* longest dataset handed to the dashboard
MaxLen == 3
\* largest top_n tried
MaxTopN == 2
\* largest num_rows tried
MaxRows == 3
\* number of seeds of the random source
NumSeeds == 1024

---------------------------------------------------------------------------
(* Generic helpers *)

Min(a, b) == IF a <= b THEN a ELSE b
Max(a, b) == IF a >= b THEN a ELSE b

RECURSIVE SumSeq(_)
SumSeq(s) == IF s = <<>> THEN 0 ELSE Head(s) + SumSeq(Tail(s))

Range(s) == {s[i] : i \in DOMAIN s}

\* sequences over S of length at most n
SeqsUpTo(S, n) == UNION {[1..k -> S] : k \in 0..n}

---------------------------------------------------------------------------
(* Input datasets of the dashboard *)

\* Python's order on the strings that occur as group keys
RegionOrder == <<"East", "North", "South", "West">>
CategoryOrder == <<"Clothing", "Electronics", "Furniture", "Grocery">>
ChannelOrder == <<"Online", "Retail">>
ProductOrder == <<"Bookshelf", "Laptop Pro", "Olive Oil Premium">>

Row(id, date, reg, country, cat, name, chan, qty, price, prof, seg) ==
    [order_id |-> id, order_date |-> date, region |-> reg, country |-> country,
     product_category |-> cat, product_name |-> name, sales_channel |-> chan,
     quantity |-> qty, unit_price |-> price, total_sales |-> qty * price,
     profit |-> prof, customer_segment |-> seg]

\* the rows a loaded dataset is made of
RowPool ==
    { Row("ORD-000001", 20231130, "South", "Brazil", "Grocery",
          "Olive Oil Premium", "Retail", 5, 10, 10, "Consumer"),
      Row("ORD-000002", 20240131, "North", "USA", "Electronics",
          "Laptop Pro", "Online", 1, 50, 20, "Corporate"),
      Row("ORD-000003", 20240131, "South", "Argentina", "Furniture",
          "Bookshelf", "Online", 2, 50, 10, "Home Office"),
      Row("ORD-000004", 20231130, "North", "Canada", "Electronics",
          "Laptop Pro", "Retail", 1, 100, 30, "Consumer") }

Datasets == SeqsUpTo(RowPool, MaxLen)

\* filter arguments tried
DateArgs == {20231130, 20240131}
RegionArgs == SUBSET {"North", "South"}
CategoryArgs == {{}, {"Electronics"}, {"Furniture", "Grocery"},
                 {"Electronics", "Furniture", "Grocery"}}
ChannelArgs == SUBSET {"Online", "Retail"}

---------------------------------------------------------------------------
(* app.py: apply_filters *)

\* mutant: an empty list selects nothing
MaskEmptyMatchesNone(r, sd, ed, regs, cats, chans) ==
    /\ r.order_date >= sd
    /\ r.order_date <= ed
    /\ r.region \in regs
    /\ r.product_category \in cats
    /\ r.sales_channel \in chans

\* mutant: the two dates are put in order before they are compared
MaskSwappedRange(r, sd, ed, regs, cats, chans) ==
    /\ r.order_date >= Min(sd, ed)
    /\ r.order_date <= Max(sd, ed)
    /\ (IF regs # {} THEN r.region \in regs ELSE TRUE)
    /\ (IF cats # {} THEN r.product_category \in cats ELSE TRUE)
    /\ (IF chans # {} THEN r.sales_channel \in chans ELSE TRUE)

\* the boolean mask of one row
Mask(r, sd, ed, regs, cats, chans) ==
    /\ r.order_date >= sd
    /\ r.order_date <= ed
    /\ (IF regs # {} THEN r.region \in regs ELSE TRUE)
    /\ (IF cats # {} THEN r.product_category \in cats ELSE TRUE)
    /\ (IF chans # {} THEN r.sales_channel \in chans ELSE TRUE)

RECURSIVE SortByDate(_)
SortByDate(d) ==
    IF d = <<>> THEN <<>>
    ELSE LET first == CHOOSE x \in {d[i].order_date : i \in DOMAIN d} :
                         \A i \in DOMAIN d : x <= d[i].order_date
             IsFirst(r) == r.order_date = first
             IsLater(r) == r.order_date # first
         IN  SelectSeq(d, IsFirst) \o SortByDate(SelectSeq(d, IsLater))

\* mutant: the kept rows are returned sorted by date
apply_filters_sorted(d, sd, ed, regs, cats, chans) ==
    LET Keep(r) == Mask(r, sd, ed, regs, cats, chans)
    IN  SortByDate(SelectSeq(d, Keep))

\* df.loc[mask].copy()
apply_filters(d, sd, ed, regs, cats, chans) ==
    LET Keep(r) == Mask(r, sd, ed, regs, cats, chans)
    IN  SelectSeq(d, Keep)


---------------------------------------------------------------------------
(* app.py: render_kpis *)

\* the outcome of a Python true division a / b: an exact fraction, or the
\* marker of the ZeroDivisionError it raises
ZeroDivisionError == [num |-> 0, den |-> 0]
TrueDiv(a, b) == IF b = 0 THEN ZeroDivisionError ELSE [num |-> a, den |-> b]

\* df[col].sum()
ColumnSum(d, col) == SumSeq([i \in DOMAIN d |-> d[i][col]])

\* df["order_id"].nunique()
NUnique(d) == Cardinality({d[i].order_id : i \in DOMAIN d})

\* mutant: the division is not guarded
AvgOrderValueUnguarded(total_revenue, total_orders) ==
    TrueDiv(total_revenue, total_orders)

\* total_revenue / total_orders if total_orders > 0 else 0
AvgOrderValue(total_revenue, total_orders) ==
    IF total_orders > 0 THEN TrueDiv(total_revenue, total_orders)
    ELSE [num |-> 0, den |-> 1]

render_kpis(d) ==
    LET total_revenue == ColumnSum(d, "total_sales")
        total_profit == ColumnSum(d, "profit")
        total_orders == NUnique(d)
    IN  [total_revenue |-> total_revenue,
         total_profit |-> total_profit,
         total_orders |-> total_orders,
         avg_order_value |-> AvgOrderValue(total_revenue, total_orders)]

---------------------------------------------------------------------------
(* app.py: the grouped views *)

\* df.groupby(key, as_index=False)[col].sum(): one row per key that occurs,
\* in ascending key order (groupby sorts the group keys)
GroupBySum(d, key, col, order) ==
    LET present == {d[i][key] : i \in DOMAIN d}
        Occurs(k) == k \in present
        keys == SelectSeq(order, Occurs)
        Total(k) == LET InGroup(r) == r[key] = k
                    IN  ColumnSum(SelectSeq(d, InGroup), col)
    IN  [i \in DOMAIN keys |-> [key |-> keys[i], total |-> Total(keys[i])]]

IsSortedDesc(rows) ==
    \A i \in DOMAIN rows : \A j \in DOMAIN rows :
        i < j => rows[i].total >= rows[j].total

\* mutant: the frame is left in group order
SortValuesSkipped(rows) == {rows}

\* .sort_values(col, ascending=False) with the default kind="quicksort",
\* which is not stable: every descending arrangement of the rows is a
\* possible outcome, rows with equal totals in any relative order
SortValuesDesc(rows) ==
    {[i \in DOMAIN rows |-> rows[p[i]]] : p \in
        {q \in Permutations(DOMAIN rows) :
            IsSortedDesc([i \in DOMAIN rows |-> rows[q[i]]])}}

\* .head(n) for n >= 0
Head_n(rows, n) == SubSeq(rows, 1, Min(n, Len(rows)))

\* mutant: the view sums the profit column
sales_by_region_profit(d) ==
    SortValuesDesc(GroupBySum(d, "region", "profit", RegionOrder))

\* the outcomes of sales_by_region's frame
sales_by_region(d) ==
    SortValuesDesc(GroupBySum(d, "region", "total_sales", RegionOrder))

\* the outcomes of profit_by_category's frame
profit_by_category(d) ==
    SortValuesDesc(GroupBySum(d, "product_category", "profit", CategoryOrder))

\* sales_channel_distribution's frame (not sorted by value)
sales_channel_distribution(d) ==
    GroupBySum(d, "sales_channel", "total_sales", ChannelOrder)

\* mutant: the sort is ascending
top_products_ascending(d, n) ==
    {Head_n([i \in DOMAIN s |-> s[Len(s) + 1 - i]], n) : s \in
        SortValuesDesc(GroupBySum(d, "product_name", "total_sales", ProductOrder))}

\* the outcomes of top_products_by_revenue's frame
top_products_by_revenue(d, n) ==
    {Head_n(s, n) : s \in
        SortValuesDesc(GroupBySum(d, "product_name", "total_sales", ProductOrder))}

---------------------------------------------------------------------------
(* app.py: monthly_sales_trend *)

MonthOf(date) == date \div 100
NextMonth(m) == IF m % 100 = 12 THEN m + 89 ELSE m + 1

IsLeap(y) == (y % 4 = 0 /\ y % 100 # 0) \/ y % 400 = 0
DaysInMonth(y, m) ==
    IF m = 2 THEN (IF IsLeap(y) THEN 29 ELSE 28)
    ELSE IF m \in {4, 6, 9, 11} THEN 30 ELSE 31

\* the label of a bin of pd.Grouper(freq="M"): the last day of the month
MonthEnd(m) == m * 100 + DaysInMonth(m \div 100, m % 100)

\* the bins of pd.Grouper(key="order_date", freq="M"): every calendar month
\* from the month of the earliest date to the month of the latest one
RECURSIVE MonthBins(_, _)
MonthBins(first, last) ==
    IF first > last THEN <<>>
    ELSE <<first>> \o MonthBins(NextMonth(first), last)

\* mutant: a plain group-by on the month, only the months that occur
GrouperBinsOccurring(d) ==
    LET dates == {d[i].order_date : i \in DOMAIN d}
        lo == CHOOSE x \in dates : \A y \in dates : x <= y
        hi == CHOOSE x \in dates : \A y \in dates : x >= y
        Occurs(m) == \E x \in dates : MonthOf(x) = m
    IN  SelectSeq(MonthBins(MonthOf(lo), MonthOf(hi)), Occurs)

GrouperBins(d) ==
    LET dates == {d[i].order_date : i \in DOMAIN d}
        lo == CHOOSE x \in dates : \A y \in dates : x <= y
        hi == CHOOSE x \in dates : \A y \in dates : x >= y
    IN  MonthBins(MonthOf(lo), MonthOf(hi))

\* groupby(pd.Grouper(...))["total_sales"].sum().reset_index()
\* .sort_values("order_date"), then the "%Y-%m" month column; a bin without
\* rows sums to 0.  The empty frame returns before any grouping.
monthly_sales_trend(d) ==
    IF d = <<>> THEN <<>>
    ELSE LET bins == GrouperBins(d)
             Total(m) == LET InBin(r) == MonthOf(r.order_date) = m
                         IN  ColumnSum(SelectSeq(d, InBin), "total_sales")
         IN  [i \in DOMAIN bins |->
                [order_date |-> MonthEnd(bins[i]), month |-> bins[i],
                 total_sales |-> Total(bins[i])]]

---------------------------------------------------------------------------
(* app.py: main() as a state machine *)

NoKpis == [total_revenue |-> 0, total_profit |-> 0, total_orders |-> 0,
           avg_order_value |-> [num |-> 0, den |-> 1]]

GenIdle ==
    /\ num_rows = 0 /\ order_id = 1 /\ data = <<>> /\ rng = 0
    /\ gen_pc = "idle" /\ result = <<>>

Init ==
    /\ df \in Datasets
    /\ start_date \in DateArgs
    /\ end_date \in DateArgs
    /\ regions \in RegionArgs
    /\ categories \in CategoryArgs
    /\ channels \in ChannelArgs
    /\ filtered_df = <<>>
    /\ kpis = NoKpis
    /\ monthly = <<>>
    /\ regional = <<>>
    /\ category_profit = <<>>
    /\ channel_sales = <<>>
    /\ product_sales = <<>>
    /\ top_n = 0
    /\ error = "none"
    /\ pc = "apply_filters"
    /\ GenIdle

ApplyFilters ==
    /\ pc = "apply_filters"
    /\ filtered_df' = apply_filters(df, start_date, end_date, regions,
                                    categories, channels)
    /\ pc' = "render_kpis"
    /\ UNCHANGED <<df, start_date, end_date, regions, categories, channels,
                   kpis, monthly, regional, category_profit, channel_sales,
                   product_sales, top_n, error>>
    /\ UNCHANGED genVars

RenderKpis ==
    /\ pc = "render_kpis"
    /\ kpis' = render_kpis(filtered_df)
    /\ error' = IF kpis'.avg_order_value = ZeroDivisionError
                THEN "ZeroDivisionError" ELSE error
    /\ pc' = IF error' = "none" THEN "monthly_sales_trend" ELSE "raised"
    /\ UNCHANGED <<df, start_date, end_date, regions, categories, channels,
                   filtered_df, monthly, regional, category_profit,
                   channel_sales, product_sales, top_n>>
    /\ UNCHANGED genVars

MonthlySalesTrend ==
    /\ pc = "monthly_sales_trend"
    /\ monthly' = monthly_sales_trend(filtered_df)
    /\ pc' = "sales_by_region"
    /\ UNCHANGED <<df, start_date, end_date, regions, categories, channels,
                   filtered_df, kpis, regional, category_profit,
                   channel_sales, product_sales, top_n, error>>
    /\ UNCHANGED genVars

SalesByRegion ==
    /\ pc = "sales_by_region"
    /\ regional' \in sales_by_region(filtered_df)
    /\ pc' = "profit_by_category"
    /\ UNCHANGED <<df, start_date, end_date, regions, categories, channels,
                   filtered_df, kpis, monthly, category_profit,
                   channel_sales, product_sales, top_n, error>>
    /\ UNCHANGED genVars

ProfitByCategory ==
    /\ pc = "profit_by_category"
    /\ category_profit' \in profit_by_category(filtered_df)
    /\ pc' = "sales_channel_distribution"
    /\ UNCHANGED <<df, start_date, end_date, regions, categories, channels,
                   filtered_df, kpis, monthly, regional, channel_sales,
                   product_sales, top_n, error>>
    /\ UNCHANGED genVars

SalesChannelDistribution ==
    /\ pc = "sales_channel_distribution"
    /\ channel_sales' = sales_channel_distribution(filtered_df)
    /\ pc' = "top_products_by_revenue"
    /\ UNCHANGED <<df, start_date, end_date, regions, categories, channels,
                   filtered_df, kpis, monthly, regional, category_profit,
                   product_sales, top_n, error>>
    /\ UNCHANGED genVars

TopProductsByRevenue ==
    /\ pc = "top_products_by_revenue"
    /\ \E n \in 1..MaxTopN :
        /\ top_n' = n
        /\ product_sales' \in top_products_by_revenue(filtered_df, n)
    /\ pc' = "done"
    /\ UNCHANGED <<df, start_date, end_date, regions, categories, channels,
                   filtered_df, kpis, monthly, regional, category_profit,
                   channel_sales, error>>
    /\ UNCHANGED genVars

Next ==
    \/ ApplyFilters
    \/ RenderKpis
    \/ MonthlySalesTrend
    \/ SalesByRegion
    \/ ProfitByCategory
    \/ SalesChannelDistribution
    \/ TopProductsByRevenue

Spec == Init /\ [][Next]_vars


---------------------------------------------------------------------------
(* utils/data_generator.py: constants *)

REGIONS == <<"North", "South", "East", "West">>

COUNTRIES_BY_REGION ==
    [North |-> <<"USA", "Canada">>,
     South |-> <<"Brazil", "Argentina">>,
     East |-> <<"China", "Japan", "India">>,
     West |-> <<"UK", "Germany", "France">>]

CUSTOMER_SEGMENTS == <<"Consumer", "Corporate", "Home Office">>
SALES_CHANNELS == <<"Online", "Retail">>

\* base_price in whole currency units, margin_pct in hundredths
Product(category, name, base_price, margin_pct) ==
    [category |-> category, name |-> name, base_price |-> base_price,
     margin_pct |-> margin_pct]

PRODUCTS ==
    << Product("Electronics", "Smartphone X", 800, 25),
       Product("Electronics", "Laptop Pro", 1200, 22),
       Product("Electronics", "Wireless Headphones", 150, 35),
       Product("Electronics", "4K Monitor", 400, 28),
       Product("Furniture", "Ergonomic Chair", 250, 30),
       Product("Furniture", "Standing Desk", 500, 32),
       Product("Furniture", "Bookshelf", 120, 27),
       Product("Clothing", "Men's Jacket", 90, 40),
       Product("Clothing", "Women's Dress", 80, 42),
       Product("Clothing", "Running Shoes", 110, 38),
       Product("Grocery", "Organic Coffee Beans", 12, 30),
       Product("Grocery", "Olive Oil Premium", 18, 28),
       Product("Grocery", "Breakfast Cereal", 6, 25) >>

\* start_date and end_date of generate_sales_data
GenStartDate == 20220101
GenEndDate == 20241231

---------------------------------------------------------------------------
(* The random module.  Its generator is deterministic from a seed taken   *)
(* from the operating system; the model keeps that shape with a small     *)
(* full-period congruential generator whose seed is arbitrary.  A state s *)
(* stands for the uniform value s / NumSeeds of [0, 1).                   *)

NextRandom(s) == (s * 141 + 139) % NumSeeds

\* random.randrange(n): floor(u * n)
randrange(n, s) == (s * n) \div NumSeeds

\* random.randint(a, b), both ends included
randint(a, b, s) == a + randrange(b - a + 1, s)

\* random.choice(seq)
choice(seq, s) == seq[randrange(Len(seq), s) + 1]

\* random.choices(SALES_CHANNELS, weights=[0.6, 0.4])[0]: the first entry
\* whose cumulative weight exceeds u * total
choices_channel(s) ==
    IF s * 10 < 6 * NumSeeds THEN SALES_CHANNELS[1] ELSE SALES_CHANNELS[2]

\* round(n / d) of a non-negative fraction, ties to even as Python's round
RoundHalfEven(n, d) ==
    LET q == n \div d
        r == n % d
    IN  IF 2 * r < d THEN q
        ELSE IF 2 * r > d THEN q + 1
        ELSE IF q % 2 = 0 THEN q ELSE q + 1

\* round(a * b / d), computed without forming the product a * b
RoundHalfEvenMul(a, b, d) ==
    LET part == (a % d) * b
        q == (a \div d) * b + part \div d
        r == part % d
    IN  IF 2 * r < d THEN q
        ELSE IF 2 * r > d THEN q + 1
        ELSE IF q % 2 = 0 THEN q ELSE q + 1

---------------------------------------------------------------------------
(* utils/data_generator.py: dates *)

\* (date - 2022-01-01).days for a date from 2022 on
RECURSIVE DaysBefore(_, _)
DaysBefore(y, m) ==
    IF y = 2022 /\ m = 1 THEN 0
    ELSE IF m = 1 THEN DaysBefore(y - 1, 12) + DaysInMonth(y - 1, 12)
    ELSE DaysBefore(y, m - 1) + DaysInMonth(y, m - 1)

DayNumber(date) ==
    DaysBefore(date \div 10000, (date \div 100) % 100) + (date % 100) - 1

\* start + timedelta(days=n), as strftime("%Y-%m-%d") prints it
RECURSIVE AddDays(_, _, _)
AddDays(y, m, n) ==
    IF n < DaysInMonth(y, m) THEN y * 10000 + m * 100 + n + 1
    ELSE IF m = 12 THEN AddDays(y + 1, 1, n - DaysInMonth(y, m))
    ELSE AddDays(y, m + 1, n - DaysInMonth(y, m))

\* random_date(start, end): two draws, s1 for randrange and s2 for random()
random_date(start, end, s1, s2) ==
    LET delta_days == DayNumber(end) - DayNumber(start)
        random_days == randrange(delta_days + 1, s1)
        \* int(random_days * bias_factor), bias_factor = (s2 / NumSeeds) ** 2
        biased_days == (random_days * s2 * s2) \div (NumSeeds * NumSeeds)
    IN  AddDays(start \div 10000, (start \div 100) % 100,
                (start % 100) - 1 + biased_days)

---------------------------------------------------------------------------
(* utils/data_generator.py: one record *)

DigitChars == <<"0", "1", "2", "3", "4", "5", "6", "7", "8", "9">>

\* the decimal digits of n >= 0
RECURSIVE Digits(_)
Digits(n) ==
    IF n < 10 THEN <<DigitChars[n + 1]>>
    ELSE Digits(n \div 10) \o <<DigitChars[(n % 10) + 1]>>

RECURSIVE ZeroPad(_, _)
ZeroPad(ds, width) == IF Len(ds) >= width THEN ds ELSE ZeroPad(<<"0">> \o ds, width)

\* mutant: no zero padding
FormatOrderIdUnpadded(n) == <<"O", "R", "D", "-">> \o Digits(n)

\* f"ORD-{order_id:06d}", as the sequence of its characters
FormatOrderId(n) == <<"O", "R", "D", "-">> \o ZeroPad(Digits(n), 6)

\* base_qty by channel
BaseQty(sales_channel, s) ==
    IF sales_channel = "Online" THEN randint(1, 5, s) ELSE randint(1, 10, s)

\* the extra quantity of a Grocery order
GroceryBonus(s) == randint(1, 10, s)

\* round(base_price * random.uniform(0.9, 1.1), 2), in cents
UnitPrice(base_price, s) ==
    RoundHalfEven(base_price * (90 * NumSeeds + 20 * s), NumSeeds)

\* round(total_sales * margin_pct * random.uniform(0.8, 1.2), 2), in cents
\* (80 + 40 u) / 10000 is (2 NumSeeds + s) / (250 NumSeeds)
ProfitOf(total_sales, margin_pct, s) ==
    RoundHalfEvenMul(total_sales * margin_pct, 2 * NumSeeds + s, 250 * NumSeeds)

\* The body of the loop of generate_sales_data for one order_id, from the
\* state s0 of the random source: the record appended and the state left.
GenerateRecord(id, s0) ==
    LET s1 == NextRandom(s0)
        s2 == NextRandom(s1)
        order_date == random_date(GenStartDate, GenEndDate, s1, s2)
        s3 == NextRandom(s2)
        region == choice(REGIONS, s3)
        s4 == NextRandom(s3)
        country == choice(COUNTRIES_BY_REGION[region], s4)
        s5 == NextRandom(s4)
        product == choice(PRODUCTS, s5)
        s6 == NextRandom(s5)
        sales_channel == choices_channel(s6)
        s7 == NextRandom(s6)
        customer_segment == choice(CUSTOMER_SEGMENTS, s7)
        s8 == NextRandom(s7)
        qty0 == BaseQty(sales_channel, s8)
        grocery == product.category = "Grocery"
        s9 == IF grocery THEN NextRandom(s8) ELSE s8
        base_qty == IF grocery THEN qty0 + GroceryBonus(s9) ELSE qty0
        quantity == Max(1, base_qty)
        s10 == NextRandom(s9)
        unit_price == UnitPrice(product.base_price, s10)
        total_sales == quantity * unit_price
        s11 == NextRandom(s10)
        profit == ProfitOf(total_sales, product.margin_pct, s11)
    IN  [record |->
            [order_id |-> FormatOrderId(id), order_date |-> order_date,
             region |-> region, country |-> country,
             product_category |-> product.category,
             product_name |-> product.name,
             sales_channel |-> sales_channel, quantity |-> quantity,
             unit_price |-> unit_price, total_sales |-> total_sales,
             profit |-> profit, customer_segment |-> customer_segment],
         rng |-> s11]

---------------------------------------------------------------------------
(* utils/data_generator.py: generate_sales_data as a state machine *)

AppIdle ==
    /\ df = <<>> /\ start_date = 0 /\ end_date = 0
    /\ regions = {} /\ categories = {} /\ channels = {}
    /\ filtered_df = <<>> /\ kpis = NoKpis /\ monthly = <<>>
    /\ regional = <<>> /\ category_profit = <<>> /\ channel_sales = <<>>
    /\ product_sales = <<>> /\ top_n = 0 /\ error = "none" /\ pc = "idle"

\* the call generate_sales_data(num_rows), at the head of its loop
GenInit ==
    /\ num_rows \in -1..MaxRows
    /\ rng \in 0..(NumSeeds - 1)
    /\ order_id = 1
    /\ data = <<>>
    /\ gen_pc = "loop"
    /\ result = <<>>
    /\ AppIdle

\* one iteration of: for order_id in range(1, num_rows + 1)
GenerateRow ==
    /\ gen_pc = "loop"
    /\ order_id <= num_rows
    /\ LET g == GenerateRecord(order_id, rng)
       IN  /\ data' = Append(data, g.record)
           /\ rng' = g.rng
    /\ order_id' = order_id + 1
    /\ UNCHANGED <<num_rows, gen_pc, result>>
    /\ UNCHANGED appVars

\* the range is exhausted: return data
GenReturn ==
    /\ gen_pc = "loop"
    /\ order_id > num_rows
    /\ result' = data
    /\ gen_pc' = "returned"
    /\ UNCHANGED <<num_rows, order_id, data, rng>>
    /\ UNCHANGED appVars

GenNext ==
    \/ GenerateRow
    \/ GenReturn

SpecGen == GenInit /\ [][GenNext]_vars


---------------------------------------------------------------------------
(* Positions of main() *)

AfterFilter == pc \notin {"idle", "apply_filters"}
AfterKpis == pc \notin {"idle", "apply_filters", "render_kpis"}
AfterMonthly == pc \in {"sales_by_region", "profit_by_category",
                        "sales_channel_distribution",
                        "top_products_by_revenue", "done"}
AfterRegion == pc \in {"profit_by_category", "sales_channel_distribution",
                       "top_products_by_revenue", "done"}
AfterCategory == pc \in {"sales_channel_distribution",
                         "top_products_by_revenue", "done"}

\* the rows of d whose key is k, and the sum of a column over them
RowsWith(d, key, k) == {i \in DOMAIN d : d[i][key] = k}
RECURSIVE SumOver(_, _, _)
SumOver(d, col, idx) ==
    IF idx = {} THEN 0
    ELSE LET i == CHOOSE x \in idx : TRUE
         IN  d[i][col] + SumOver(d, col, idx \ {i})
KeysOf(d, key) == {d[i][key] : i \in DOMAIN d}
FirstIndex(d, key, k) ==
    CHOOSE i \in DOMAIN d :
        d[i][key] = k /\ \A j \in 1..(i - 1) : d[j][key] # k

---------------------------------------------------------------------------
(* C1 *)

\* the membership test of the claim
Selected(r) ==
    /\ start_date <= r.order_date
    /\ r.order_date <= end_date
    /\ (regions = {} \/ r.region \in regions)
    /\ (categories = {} \/ r.product_category \in categories)
    /\ (channels = {} \/ r.sales_channel \in channels)

\* C1: apply_filters keeps a record iff its date lies in [start_date,
\* end_date], both ends included, and for each of region, category and
\* channel the membership set is empty or contains the record's value.
C1_KeepsExactlySelected ==
    AfterFilter =>
        /\ \A j \in DOMAIN filtered_df : Selected(filtered_df[j])
        /\ \A i \in DOMAIN df :
              Selected(df[i]) => \E j \in DOMAIN filtered_df : filtered_df[j] = df[i]
        /\ Len(filtered_df) = Cardinality({i \in DOMAIN df : Selected(df[i])})

\* an empty region set keeps rows, the three other tests each drop a row, and
\* rows dated exactly start_date and exactly end_date are kept
C1_Witness ==
    /\ AfterFilter
    /\ regions = {} /\ categories # {} /\ channels # {}
    /\ start_date < end_date
    /\ \E j \in DOMAIN filtered_df : filtered_df[j].order_date = start_date
    /\ \E j \in DOMAIN filtered_df : filtered_df[j].order_date = end_date
    /\ Len(filtered_df) < Len(df)

---------------------------------------------------------------------------
(* C2 *)

\* s is t with some elements left out: match s against t from the left
RECURSIVE IsSubsequence(_, _)
IsSubsequence(s, t) ==
    IF s = <<>> THEN TRUE
    ELSE IF t = <<>> THEN FALSE
    ELSE IF Head(s) = Head(t) THEN IsSubsequence(Tail(s), Tail(t))
    ELSE IsSubsequence(s, Tail(t))

CoversAll ==
    /\ \A i \in DOMAIN df :
          /\ start_date <= df[i].order_date
          /\ df[i].order_date <= end_date
          /\ df[i].region \in regions
          /\ df[i].product_category \in categories
          /\ df[i].sales_channel \in channels

\* C2: the output of apply_filters is a subsequence of its input (same
\* relative order, nothing added, duplicated or altered), and it is the
\* input itself when the three sets hold every value present and the date
\* range covers every date present.
C2_SubsequenceAndIdentity ==
    AfterFilter =>
        /\ IsSubsequence(filtered_df, df)
        /\ (CoversAll => filtered_df = df)

C2_Witness ==
    /\ AfterFilter
    /\ Len(df) >= 2
    /\ df[1].order_date > df[2].order_date
    /\ df[1].region # df[2].region
    /\ CoversAll
    /\ filtered_df = df

---------------------------------------------------------------------------
(* C3 *)

\* C3: the per-region totals of the sales-by-region view add up to the
\* total revenue KPI of the same filtered dataset.
C3_RegionTotalsSumToRevenue ==
    AfterRegion =>
        SumSeq([i \in DOMAIN regional |-> regional[i].total]) = kpis.total_revenue

C3_Witness ==
    /\ AfterRegion
    /\ Len(regional) = 2
    /\ Len(filtered_df) = 3
    /\ regional[1].total > regional[2].total
    /\ regional[1].total + regional[2].total = kpis.total_revenue
    /\ kpis.total_revenue > 0

---------------------------------------------------------------------------
(* C4 *)

ProductNames == KeysOf(filtered_df, "product_name")
ProductTotal(name) ==
    SumOver(filtered_df, "total_sales", RowsWith(filtered_df, "product_name", name))

\* C4: top_products_by_revenue(data, k), k >= 1, returns min(k, number of
\* distinct products) rows, in descending order of total, each carrying the
\* full sum of its product, and no product left out has a strictly larger
\* total than a returned one.
C4_TopProducts ==
    pc = "done" =>
        /\ top_n >= 1
        /\ Len(product_sales) = Min(top_n, Cardinality(ProductNames))
        /\ Len(product_sales) <= top_n
        /\ \A i \in DOMAIN product_sales : \A j \in DOMAIN product_sales :
              i < j => /\ product_sales[i].total >= product_sales[j].total
                       /\ product_sales[i].key # product_sales[j].key
        /\ \A i \in DOMAIN product_sales :
              /\ product_sales[i].key \in ProductNames
              /\ product_sales[i].total = ProductTotal(product_sales[i].key)
        /\ \A name \in ProductNames :
              (\A i \in DOMAIN product_sales : product_sales[i].key # name)
                  => \A i \in DOMAIN product_sales :
                        ProductTotal(name) <= product_sales[i].total

\* a truncation: more products than rows asked for, with different totals
C4_Witness ==
    /\ pc = "done"
    /\ top_n = 2
    /\ Cardinality(ProductNames) = 3
    /\ Len(product_sales) = 2
    /\ product_sales[1].total > product_sales[2].total

---------------------------------------------------------------------------
(* C5 *)

MonthsWithRecords == {MonthOf(filtered_df[i].order_date) : i \in DOMAIN filtered_df}
MonthTotal(m) ==
    SumOver(filtered_df, "total_sales",
            {i \in DOMAIN filtered_df : MonthOf(filtered_df[i].order_date) = m})
IsCalendarMonth(m) == m % 100 \in 1..12
FirstMonth == CHOOSE a \in MonthsWithRecords : \A b \in MonthsWithRecords : a <= b
LastMonth == CHOOSE a \in MonthsWithRecords : \A b \in MonthsWithRecords : a >= b

MonthlyAscendingWithSums ==
    /\ \A i \in DOMAIN monthly : \A j \in DOMAIN monthly :
          i < j => monthly[i].month < monthly[j].month
    /\ \A i \in DOMAIN monthly : monthly[i].total_sales = MonthTotal(monthly[i].month)

\* C5 as stated: the monthly trend has exactly one entry per calendar month
\* that has a record, ascending, with that month's sum, and no entry for a
\* month without records.
C5_OnlyMonthsWithRecords ==
    AfterMonthly =>
        /\ {monthly[i].month : i \in DOMAIN monthly} = MonthsWithRecords
        /\ MonthlyAscendingWithSums

\* C5 amended: the monthly trend has exactly one entry per calendar month from
\* the month of the earliest record to the month of the latest one, ascending,
\* each with the sum of that month's records, which is 0 for a month in
\* between that has no record; an empty dataset gives no series.
C5_EveryMonthOfTheSpan ==
    AfterMonthly =>
        /\ {monthly[i].month : i \in DOMAIN monthly} =
              (IF MonthsWithRecords = {} THEN {}
               ELSE {m \in FirstMonth..LastMonth : IsCalendarMonth(m)})
        /\ MonthlyAscendingWithSums

\* a month between two months with records is present with the value 0
C5_Witness ==
    /\ AfterMonthly
    /\ \E i \in DOMAIN monthly :
          /\ monthly[i].month \notin MonthsWithRecords
          /\ monthly[i].total_sales = 0
          /\ i > 1 /\ i < Len(monthly)

---------------------------------------------------------------------------
(* C6 *)

\* C6: totalRevenue is the sum of total_sales, totalProfit the sum of profit,
\* totalOrders the number of distinct order_id values, avgOrderValue is
\* totalRevenue / totalOrders when totalOrders > 0 and 0 otherwise, and on a
\* dataset of zero rows nothing is raised.
C6_Kpis ==
    AfterKpis =>
        /\ error = "none" /\ pc # "raised"
        /\ kpis.total_revenue = SumOver(filtered_df, "total_sales", DOMAIN filtered_df)
        /\ kpis.total_profit = SumOver(filtered_df, "profit", DOMAIN filtered_df)
        /\ kpis.total_orders =
              Cardinality({filtered_df[i].order_id : i \in DOMAIN filtered_df})
        /\ kpis.avg_order_value.den > 0
        /\ (kpis.total_orders > 0 =>
              kpis.avg_order_value.num * kpis.total_orders =
                  kpis.total_revenue * kpis.avg_order_value.den)
        /\ (kpis.total_orders = 0 => kpis.avg_order_value.num = 0)

\* a date range entirely outside the data's span: zero rows, average 0
C6_Witness ==
    /\ AfterKpis
    /\ df # <<>>
    /\ regions = {} /\ categories = {} /\ channels = {}
    /\ start_date <= end_date
    /\ \A i \in DOMAIN df : df[i].order_date < start_date
    /\ filtered_df = <<>>
    /\ kpis.total_orders = 0
    /\ kpis.avg_order_value.num = 0

---------------------------------------------------------------------------
(* C9 *)

FirstEncounterOrder(rows, key) ==
    \A i \in DOMAIN rows : \A j \in DOMAIN rows :
        (i < j /\ rows[i].total = rows[j].total) =>
            FirstIndex(filtered_df, key, rows[i].key)
                < FirstIndex(filtered_df, key, rows[j].key)

\* C9 as stated: in the three descending views, keys with equal sums appear
\* in the order in which they are first met in the input.
C9_TiesInFirstEncounterOrder ==
    /\ AfterRegion => FirstEncounterOrder(regional, "region")
    /\ AfterCategory => FirstEncounterOrder(category_profit, "product_category")
    /\ pc = "done" => FirstEncounterOrder(product_sales, "product_name")

DescendingArrangement(rows, key, col) ==
    /\ {rows[i].key : i \in DOMAIN rows} = KeysOf(filtered_df, key)
    /\ Len(rows) = Cardinality(KeysOf(filtered_df, key))
    /\ \A i \in DOMAIN rows :
          rows[i].total = SumOver(filtered_df, col, RowsWith(filtered_df, key, rows[i].key))
    /\ \A i \in DOMAIN rows : \A j \in DOMAIN rows :
          i < j => rows[i].total >= rows[j].total

\* C9 amended: each descending view lists every key once with its sum, in
\* non-increasing order of sum; the order of keys with equal sums is not
\* fixed by the order of first encounter (the top-N view is a non-increasing
\* list of distinct products, whichever of the tied ones it keeps).
C9_DescendingWhateverTheTies ==
    /\ AfterRegion => DescendingArrangement(regional, "region", "total_sales")
    /\ AfterCategory =>
          DescendingArrangement(category_profit, "product_category", "profit")
    /\ pc = "done" =>
          \A i \in DOMAIN product_sales : \A j \in DOMAIN product_sales :
              i < j => /\ product_sales[i].total >= product_sales[j].total
                       /\ product_sales[i].key # product_sales[j].key

\* two regions with equal sums, listed against the order of first encounter
C9_Witness ==
    /\ AfterRegion
    /\ Len(regional) = 2
    /\ regional[1].total = regional[2].total
    /\ FirstIndex(filtered_df, "region", regional[1].key)
          > FirstIndex(filtered_df, "region", regional[2].key)

---------------------------------------------------------------------------
(* C10 *)

\* C10: with start_date > end_date apply_filters returns zero rows and raises
\* nothing, and an empty result goes through the KPI and aggregation steps:
\* no step raises, the KPIs are zero and every view is empty.
C10_EmptyResultIsAccepted ==
    /\ error = "none" /\ pc # "raised"
    /\ (AfterFilter /\ start_date > end_date) => filtered_df = <<>>
    /\ (AfterKpis /\ filtered_df = <<>>) =>
          kpis = [total_revenue |-> 0, total_profit |-> 0, total_orders |-> 0,
                  avg_order_value |-> [num |-> 0, den |-> 1]]
    /\ (pc = "done" /\ filtered_df = <<>>) =>
          /\ monthly = <<>> /\ regional = <<>> /\ category_profit = <<>>
          /\ channel_sales = <<>> /\ product_sales = <<>>

C10_Witness ==
    /\ pc = "done"
    /\ start_date > end_date
    /\ Len(df) = 3
    /\ regions = {} /\ categories = {} /\ channels = {}
    /\ \E i \in DOMAIN df : df[i].order_date = start_date
    /\ \E i \in DOMAIN df : df[i].order_date = end_date
    /\ filtered_df = <<>>

---------------------------------------------------------------------------
(* C7 *)

DigitValue(c) == CHOOSE v \in 0..9 : DigitChars[v + 1] = c

RECURSIVE ParseDigits(_)
ParseDigits(ds) ==
    IF ds = <<>> THEN 0
    ELSE ParseDigits(SubSeq(ds, 1, Len(ds) - 1)) * 10 + DigitValue(ds[Len(ds)])

IsCalendarDate(date) ==
    /\ IsCalendarMonth(date \div 100)
    /\ date % 100 \in 1..DaysInMonth(date \div 10000, (date \div 100) % 100)

\* C7: generate_sales_data(n), n >= 1, returns n records, the i-th with
\* order_id "ORD-" and i zero-padded to 6 digits (so pairwise distinct), each
\* with quantity >= 1, unit_price > 0, a country of its region's list and an
\* order_date within 2022-01-01..2024-12-31.
C7_GeneratedRecords ==
    (gen_pc = "returned" /\ num_rows >= 1) =>
        /\ Len(result) = num_rows
        /\ \A i \in DOMAIN result :
              /\ Len(result[i].order_id) = 10
              /\ SubSeq(result[i].order_id, 1, 4) = <<"O", "R", "D", "-">>
              /\ \A k \in 5..10 : result[i].order_id[k] \in Range(DigitChars)
              /\ ParseDigits(SubSeq(result[i].order_id, 5, 10)) = i
              /\ result[i].quantity >= 1
              /\ result[i].unit_price > 0
              /\ \E r \in DOMAIN REGIONS :
                    /\ REGIONS[r] = result[i].region
                    /\ result[i].country \in Range(COUNTRIES_BY_REGION[REGIONS[r]])
              /\ IsCalendarDate(result[i].order_date)
              /\ 20220101 <= result[i].order_date
              /\ result[i].order_date <= 20241231
        /\ \A i \in DOMAIN result : \A j \in DOMAIN result :
              i # j => result[i].order_id # result[j].order_id

C7_Witness ==
    /\ gen_pc = "returned"
    /\ num_rows = 3
    /\ Len(result) = 3
    /\ \E i \in DOMAIN result : result[i].quantity = 1
    /\ \E i \in DOMAIN result : result[i].product_category = "Grocery"
    /\ \E i \in DOMAIN result : result[i].order_date > 20240101

---------------------------------------------------------------------------
(* C8 *)

\* C8: a call with num_rows <= 0 fails with a GenerationError and returns no
\* dataset.
C8_NonPositiveCountDoesNotReturn ==
    num_rows <= 0 => gen_pc # "returned"

=============================================================================
